---------------------------- MODULE Spec2Model ----------------------------
(***************************************************************************)
(* A model of the oracle-multiples circuit builders:                       *)
(*   - get_angles_phase_addition / to_binary   (Draper addition angles)    *)
(*   - phase_add / c_phase_add / c_phase_add_mod_K  (operations.py)        *)
(*   - get_remainders_power_2                  (utilities_multiples.py)    *)
(*   - multi_control_z / mc_gate / _c1c2 / _gate_u                         *)
(*   - oracle_multiples                        (code/multiples_functions)  *)
(*   - the first phase of oracle_multiples in both files that define it    *)
(*     (code/multiples_functions.py and multiples_functions.py)            *)
(*                                                                         *)
(* A circuit is the sequence of gates the builder appended, in append      *)
(* order.  Its meaning is given by an interpreter that runs the gates on   *)
(* one computational-basis input.  A wire is either in the amplitude basis *)
(* (it holds a bit) or in the phase basis (it holds the relative phase of  *)
(* (|0> + e^{i phi}|1>)/sqrt 2).                                           *)
(*                                                                         *)
(* Angles are integers counting units of pi / 2^AngleRes, so that every    *)
(* angle the builders compute (a sum of powers of two times pi) is exact.  *)
(* An angle is kept unreduced; a phase held by a wire is reduced modulo    *)
(* 2 pi = TwoPi units.                                                     *)
(***************************************************************************)
EXTENDS Integers, Sequences, FiniteSets, TLC

VARIABLES
    \* get_angles_phase_addition(number_, nqubits)
    gNumber, gNq, gBinary, gAngles, gPc,
    \* get_remainders_power_2(number, power)
    rK, rPower, rList, rP, rPc, rVia,
    \* c_phase_add_mod_K: arguments, next statement, circuit under
    \* construction, and the run of the built circuit on a basis input
    aArgs, aStmt, aCirc, aPc, aSim, aIdx, aX, aC,
    \* oracle_multiples: arguments, position, loop index, list_remainders,
    \* circuits_sums, circuit under construction, the exception raised, and
    \* the run of the built circuit on a basis input
    oArgs, oPc, oI, oRem, oSums, oCirc, oErr, oSim, oIdx, oX,
    \* the num_sum of every call of c_phase_add_mod_K made by the current
    \* call of oracle_multiples, in call order
    oBuilds,
    \* the first phase of oracle_multiples: arguments, position,
    \* n_remainders, classic_register after defaulting, registers created,
    \* registers of the circuit, gates appended, the exception raised
    iArgs, iPc, iNRem, iFlag, iRegs, iQregs, iCirc, iErr,
    \* mc_gate: number of wires, the call of _c1c2 in progress, its
    \* qubit_pairs, position in them, and the gates appended so far
    dN, dPass, dPairs, dIdx, dOut, dPc

angVars == <<gNumber, gNq, gBinary, gAngles, gPc>>
remVars == <<rK, rPower, rList, rP, rPc, rVia>>
addVars == <<aArgs, aStmt, aCirc, aPc, aSim, aIdx, aX, aC>>
orVars == <<oArgs, oPc, oI, oRem, oSums, oCirc, oErr, oSim, oIdx, oX, oBuilds>>
iniVars == <<iArgs, iPc, iNRem, iFlag, iRegs, iQregs, iCirc, iErr>>
decVars == <<dN, dPass, dPairs, dIdx, dOut, dPc>>
vars == <<angVars, remVars, addVars, orVars, iniVars, decVars>>

---------------------------------------------------------------------------
(* Bounds of the model *)

\* largest modulus K drawn
MaxK == 5
\* largest register width drawn for the angle vector
MaxW == 4
\* largest exponent bound `power` drawn for the remainder sequence
MaxP == 8

---------------------------------------------------------------------------
(* Arithmetic helpers *)

Pow2(n) == 2 ^ n

RECURSIVE SumSeq(_)
SumSeq(s) == IF s = <<>> THEN 0 ELSE Head(s) + SumSeq(Tail(s))

\* np.ceil(np.log2(k)).astype(int) for k >= 1: the least e with 2^e >= k
RECURSIVE CeilLog2From(_, _)
CeilLog2From(k, e) == IF Pow2(e) >= k THEN e ELSE CeilLog2From(k, e + 1)

CeilLog2(k) == CeilLog2From(k, 0)

\* bit b of the register value v
BitOfValue(v, b) == (v \div Pow2(b)) % 2

\* Angle unit: pi / 2^AngleRes.  Large enough for every width the model draws.
AngleRes == MaxW + CeilLog2(MaxK) + 1

Pi == Pow2(AngleRes)

TwoPi == 2 * Pi

\* an angle reduced to [0, 2 pi)
ModTwoPi(a) == a % TwoPi

---------------------------------------------------------------------------
(* to_binary: utilities_multiples.py *)

\* bin(number)[2:] for number >= 0: the binary digits, most significant first
RECURSIVE Bin(_)
Bin(number) ==
    IF number < 2 THEN << IF number = 1 THEN "1" ELSE "0" >>
    ELSE Bin(number \div 2) \o << IF number % 2 = 1 THEN "1" ELSE "0" >>

Zeros(n) == [k \in 1..n |-> "0"]

\* the padding put in front of the digits: '0' * (nbits - len(binary))
PadZeros(nbits, binary) == Zeros(nbits - Len(binary))

\* to_binary(number, nbits) with nbits given.  When nbits is too small the
\* code prints a message and falls off the end: the result is None.
to_binary(number, nbits) ==
    LET binary == Bin(number) IN
    IF nbits < Len(binary)
    THEN [none |-> TRUE, str |-> <<>>]
    ELSE [none |-> FALSE, str |-> PadZeros(nbits, binary) \o binary]

---------------------------------------------------------------------------
(* get_angles_phase_addition: code/operations.py *)

\* a range that starts one position late: range(nqubits-i, nqubits)
AngleRangeOffByOne(nqubits, i) == (nqubits - i) .. (nqubits - 1)

\* range(nqubits-i-1, nqubits), the string positions j summed for wire i
AngleRange(nqubits, i) == (nqubits - i - 1) .. (nqubits - 1)

\* a term with the exponent one too low: math.pow(2, nqubits-i-2-j) * np.pi
AngleTermHalved(nqubits, i, j) == Pow2(AngleRes + nqubits - i - 2 - j)

\* math.pow(2, nqubits-i-1-j) * np.pi, in angle units
AngleTerm(nqubits, i, j) == Pow2(AngleRes + nqubits - i - 1 - j)

RECURSIVE SumTerms(_, _, _, _)
SumTerms(str, nqubits, i, js) ==
    IF js = {} THEN 0
    ELSE LET j == CHOOSE x \in js : TRUE IN
         (IF str[j + 1] = "1" THEN AngleTerm(nqubits, i, j) ELSE 0)
         + SumTerms(str, nqubits, i, js \ {j})

\* element i of the list comprehension (num_binary is a string here)
AngleElement(str, nqubits, i) == SumTerms(str, nqubits, i, AngleRange(nqubits, i))

\* The whole function.  Subscripting None raises TypeError (err).
get_angles_phase_addition(number_, nqubits) ==
    LET num_binary == to_binary(number_, nqubits) IN
    IF num_binary.none /\ nqubits > 0
    THEN [err |-> TRUE, val |-> <<>>]
    ELSE [err |-> FALSE,
          val |-> [k \in 1..nqubits |-> AngleElement(num_binary.str, nqubits, k - 1)]]

\* -1 * angles
NegAngles(angles) == [k \in 1..Len(angles) |-> 0 - angles[k]]

---------------------------------------------------------------------------
(* Gates and their action on a basis input *)

\* one appended instruction: op on the wires q, with an angle and, for an
\* appended sub-circuit, its gates (over wires 0.., mapped to q in order)
Gate(op, q, ang) == [op |-> op, q |-> q, ang |-> ang, sub |-> <<>>]

SubCircuit(gates, q) == [op |-> "circ", q |-> q, ang |-> 0, sub |-> gates]

\* the state of the wires 0..nwires-1 on basis input `bits`
BasisState(bits) ==
    [bit |-> bits, ph |-> [w \in DOMAIN bits |-> 0], inph |-> {},
     g |-> 0, bad |-> FALSE, hits |-> 0]

Bad(s) == [s EXCEPT !.bad = TRUE]

\* the integer held by the wires q (q[1] least significant)
RegValue(s, q) == SumSeq([k \in 1..Len(q) |-> s.bit[q[k]] * Pow2(k - 1)])

\* the phase wire q[k] holds when the register q holds v in the Fourier
\* basis of QFT(do_swaps=False): 2 pi v / 2^k
FourierPhase(v, k) == ModTwoPi(v * Pow2(AngleRes + 1 - k))

\* QFT(num_qubits, do_swaps=False, approximation_degree=0) on a basis state
ApplyQFT(q, s) ==
    IF \E k \in 1..Len(q) : q[k] \in s.inph THEN Bad(s)
    ELSE LET v == RegValue(s, q) IN
         [s EXCEPT
            !.ph = [w \in DOMAIN s.ph |->
                      IF \E k \in 1..Len(q) : q[k] = w
                      THEN FourierPhase(v, CHOOSE k \in 1..Len(q) : q[k] = w)
                      ELSE s.ph[w]],
            !.bit = [w \in DOMAIN s.bit |->
                      IF \E k \in 1..Len(q) : q[k] = w THEN 0 ELSE s.bit[w]],
            !.inph = s.inph \cup {q[k] : k \in 1..Len(q)}]

\* QFT(..., inverse=True): back to the basis state whose transform the
\* wires hold; any other product of phases is not a basis state
ApplyIQFT(q, s) ==
    IF \E k \in 1..Len(q) : q[k] \notin s.inph THEN Bad(s)
    ELSE LET vs == {v \in 0..(Pow2(Len(q)) - 1) :
                      \A k \in 1..Len(q) : s.ph[q[k]] = FourierPhase(v, k)} IN
         IF vs = {} THEN Bad(s)
         ELSE LET v == CHOOSE x \in vs : TRUE IN
              [s EXCEPT
                 !.bit = [w \in DOMAIN s.bit |->
                            IF \E k \in 1..Len(q) : q[k] = w
                            THEN BitOfValue(v, (CHOOSE k \in 1..Len(q) : q[k] = w) - 1)
                            ELSE s.bit[w]],
                 !.ph = [w \in DOMAIN s.ph |->
                            IF \E k \in 1..Len(q) : q[k] = w THEN 0 ELSE s.ph[w]],
                 !.inph = s.inph \ {q[k] : k \in 1..Len(q)}]

\* p(theta) = diag(1, e^{i theta}) on wire t
ApplyP(ang, t, s) ==
    IF t \in s.inph
    THEN [s EXCEPT !.ph[t] = ModTwoPi(@ + ang)]
    ELSE [s EXCEPT !.g = ModTwoPi(@ + ang * s.bit[t])]

\* x on wire t; on a phase wire X(|0> + e^{i phi}|1>) = e^{i phi}(|0> + e^{-i phi}|1>)
ApplyX(t, s) ==
    IF t \in s.inph
    THEN [s EXCEPT !.ph[t] = ModTwoPi(0 - @), !.g = ModTwoPi(@ + s.ph[t])]
    ELSE [s EXCEPT !.bit[t] = 1 - @]

\* h on wire t
ApplyH(t, s) ==
    IF t \in s.inph
    THEN IF s.ph[t] \in {0, Pi}
         THEN [s EXCEPT !.bit[t] = s.ph[t] \div Pi, !.ph[t] = 0,
                        !.inph = @ \ {t}]
         ELSE Bad(s)
    ELSE [s EXCEPT !.ph[t] = s.bit[t] * Pi, !.bit[t] = 0,
                   !.inph = @ \cup {t}]

\* cp(theta, c, t) = diag(1, 1, 1, e^{i theta}), symmetric in c and t
ApplyCP(ang, c, t, s) ==
    IF c \notin s.inph THEN (IF s.bit[c] = 1 THEN ApplyP(ang, t, s) ELSE s)
    ELSE IF t \notin s.inph THEN (IF s.bit[t] = 1 THEN ApplyP(ang, c, s) ELSE s)
    ELSE Bad(s)

\* cx(c, t)
ApplyCX(c, t, s) ==
    IF c \in s.inph THEN Bad(s)
    ELSE IF s.bit[c] = 1 THEN ApplyX(t, s) ELSE s

\* crx(theta, c, t): RX(pi) = -i X, RX(-pi) = i X, RX(0) = I; any other
\* angle takes a basis state to a superposition, which this state does not
\* represent (bad).  multi_control_z(n) uses such angles from n = 4 on,
\* that is for k >= 9.
ApplyCRX(ang, c, t, s) ==
    IF c \in s.inph THEN Bad(s)
    ELSE IF s.bit[c] = 0 \/ ang = 0 THEN s
    ELSE IF ang = Pi
         THEN [ApplyX(t, s) EXCEPT !.g = ModTwoPi(@ - (Pi \div 2))]
    ELSE IF ang = 0 - Pi
         THEN [ApplyX(t, s) EXCEPT !.g = ModTwoPi(@ + (Pi \div 2))]
    ELSE Bad(s)

\* the controlled sub-oracle on the controls q[1..nctl]: it is applied when
\* every control holds 1 (the sub-oracle is opaque: only its application
\* is counted)
ApplyOracle(q, nctl, s) ==
    IF \E k \in 1..nctl : q[k] \in s.inph THEN Bad(s)
    ELSE IF \A k \in 1..nctl : s.bit[q[k]] = 1
         THEN [s EXCEPT !.hits = @ + 1]
         ELSE s

\* the gates of an appended sub-circuit, on the outer wires
Remap(gates, q) ==
    [k \in 1..Len(gates) |->
        [gates[k] EXCEPT !.q = [j \in 1..Len(gates[k].q) |-> q[gates[k].q[j] + 1]]]]

RECURSIVE RunGates(_, _)
RECURSIVE ApplyGate(_, _)

\* one gate on a state
ApplyGate(gt, s) ==
    IF s.bad THEN s
    ELSE CASE gt.op = "QFT" -> ApplyQFT(gt.q, s)
           [] gt.op = "IQFT" -> ApplyIQFT(gt.q, s)
           [] gt.op = "p" -> ApplyP(gt.ang, gt.q[1], s)
           [] gt.op = "cp" -> ApplyCP(gt.ang, gt.q[1], gt.q[2], s)
           [] gt.op = "cu" -> ApplyCP(gt.ang, gt.q[1], gt.q[2], s)
           [] gt.op = "x" -> ApplyX(gt.q[1], s)
           [] gt.op = "h" -> ApplyH(gt.q[1], s)
           [] gt.op = "cx" -> ApplyCX(gt.q[1], gt.q[2], s)
           [] gt.op = "crx" -> ApplyCRX(gt.ang, gt.q[1], gt.q[2], s)
           [] gt.op = "oracle" -> ApplyOracle(gt.q, gt.ang, s)
           [] gt.op = "circ" -> RunGates(Remap(gt.sub, gt.q), s)
           [] OTHER -> Bad(s)

\* a circuit, gate by gate in append order
RunGates(gates, s) ==
    IF gates = <<>> THEN s
    ELSE RunGates(Tail(gates), ApplyGate(Head(gates), s))

---------------------------------------------------------------------------
(* phase_add, c_phase_add, c_phase_add_mod_K: code/operations.py *)

\* what a builder call leaves: an error, or the gates it appended
Raised == [err |-> TRUE, gates |-> <<>>]

Appended(gates) == [err |-> FALSE, gates |-> gates]

\* angles, negated when inv
SignedAnglesNoInv(angles, inv) == angles

SignedAngles(angles, inv) == IF inv THEN NegAngles(angles) ELSE angles

\* phase_add(circuit, target_register, num_sum, inv)
phase_add(target_register, num_sum, inv) ==
    LET nqubits == Len(target_register)
        a == get_angles_phase_addition(num_sum, nqubits) IN
    IF a.err THEN Raised
    ELSE Appended([i \in 1..nqubits |->
            Gate("p", <<target_register[i]>>, SignedAngles(a.val, inv)[i])])

\* c_phase_add(circuit, control, target_register, num_sum, inv)
c_phase_add(control, target_register, num_sum, inv) ==
    LET nqubits == Len(target_register)
        a == get_angles_phase_addition(num_sum, nqubits) IN
    IF a.err THEN Raised
    ELSE Appended([i \in 1..nqubits |->
            Gate("cp", <<control, target_register[i]>>, SignedAngles(a.val, inv)[i])])

\* target_register[nqubits-1], the wire tested for overflow
GuardWire(target_register) == target_register[Len(target_register)]

\* the ancilla is cleared without the X bracket
AncillaUncomputeNoX(guard, ancilla_qubit) ==
    << Gate("cx", <<guard, ancilla_qubit>>, 0) >>

\* circuit.x(top); circuit.cx(top, ancilla_qubit); circuit.x(top)
AncillaUncompute(guard, ancilla_qubit) ==
    << Gate("x", <<guard>>, 0),
       Gate("cx", <<guard, ancilla_qubit>>, 0),
       Gate("x", <<guard>>, 0) >>

\* the last statement of c_phase_add_mod_K that appends
AdderLastStmt == 13

\* Statement n of c_phase_add_mod_K, in source order, for the arguments a
AdderStmt(n, a) ==
    LET t == a.target_register IN
    CASE n = 1 -> Appended(IF a.include_QFTs THEN << Gate("QFT", t, 0) >> ELSE <<>>)
      [] n = 2 -> c_phase_add(a.control, t, a.num_sum, FALSE)
      [] n = 3 -> phase_add(t, a.K, TRUE)
      [] n = 4 -> Appended(<< Gate("IQFT", t, 0) >>)
      [] n = 5 -> Appended(<< Gate("cx", <<GuardWire(t), a.ancilla_qubit>>, 0) >>)
      [] n = 6 -> Appended(<< Gate("QFT", t, 0) >>)
      [] n = 7 -> c_phase_add(a.ancilla_qubit, t, a.K, FALSE)
      [] n = 8 -> c_phase_add(a.control, t, a.num_sum, TRUE)
      [] n = 9 -> Appended(<< Gate("IQFT", t, 0) >>)
      [] n = 10 -> Appended(AncillaUncompute(GuardWire(t), a.ancilla_qubit))
      [] n = 11 -> Appended(<< Gate("QFT", t, 0) >>)
      [] n = 12 -> c_phase_add(a.control, t, a.num_sum, FALSE)
      [] n = 13 -> Appended(IF a.include_QFTs THEN << Gate("IQFT", t, 0) >> ELSE <<>>)

\* The whole builder: the statements in order, stopping at the first error
RECURSIVE AdderFrom(_, _, _)
AdderFrom(n, a, circuit) ==
    IF n > AdderLastStmt THEN Appended(circuit)
    ELSE LET r == AdderStmt(n, a) IN
         IF r.err THEN [err |-> TRUE, gates |-> circuit]
         ELSE AdderFrom(n + 1, a, circuit \o r.gates)

c_phase_add_mod_K(target_register, control, ancilla_qubit, num_sum, K, include_QFTs) ==
    AdderFrom(1, [target_register |-> target_register, control |-> control,
                  ancilla_qubit |-> ancilla_qubit, num_sum |-> num_sum,
                  K |-> K, include_QFTs |-> include_QFTs], <<>>)

---------------------------------------------------------------------------
(* multi_control_z, mc_gate, _c1c2, _gate_u: utilities_multiples.py *)

\* [pairs(control, target) for control in range(start, target)]
PairsOfTarget(target, start) ==
    [k \in 1..(IF target > start THEN target - start ELSE 0) |->
        [control |-> start + k - 1, target |-> target]]

\* ... for target in range(n_qubits), targets from `target` on
RECURSIVE PairsFrom(_, _, _)
PairsFrom(target, n_qubits, start) ==
    IF target >= n_qubits THEN <<>>
    ELSE PairsOfTarget(target, start) \o PairsFrom(target + 1, n_qubits, start)

\* key=lambda e: e.control + e.target
PairKey(pair) == pair.control + pair.target

\* a sort that is ascending whatever `reverse` says
StaysInFrontAscending(a, b, reverse) == PairKey(a) <= PairKey(b)

\* whether element a stays in front of a later element b
StaysInFront(a, b, reverse) ==
    IF reverse THEN PairKey(a) >= PairKey(b) ELSE PairKey(a) <= PairKey(b)

\* b put into a sorted list behind everything that stays in front of it
RECURSIVE InsertStable(_, _, _)
InsertStable(sorted, b, reverse) ==
    IF sorted = <<>> THEN <<b>>
    ELSE IF StaysInFront(sorted[Len(sorted)], b, reverse) THEN Append(sorted, b)
    ELSE Append(InsertStable(SubSeq(sorted, 1, Len(sorted) - 1), b, reverse),
                sorted[Len(sorted)])

\* list.sort(key, reverse): stable in both directions
RECURSIVE SortStableFrom(_, _, _)
SortStableFrom(sorted, rest, reverse) ==
    IF rest = <<>> THEN sorted
    ELSE SortStableFrom(InsertStable(sorted, Head(rest), reverse), Tail(rest), reverse)

SortPairs(pairs, reverse) == SortStableFrom(<<>>, pairs, reverse)

\* qubit_pairs after the sort, for one call of _c1c2
QubitPairs(n_qubits, step) ==
    SortPairs(PairsFrom(0, n_qubits, IF step = 1 THEN 0 ELSE 1), step = 1)

\* exponent = target - control, one less when control == 0
PairExponent(pair) ==
    IF pair.control = 0 THEN pair.target - pair.control - 1
    ELSE pair.target - pair.control

\* signal = step * (-1 if (control == 0 and not first) else 1)
PairSignal(pair, first, step) ==
    step * (IF pair.control = 0 /\ ~first THEN 0 - 1 ELSE 1)

\* pi / param for param = 2**exponent, in angle units
PiOver(exponent) == Pi \div Pow2(exponent)

\* only the pair of the deepest control and the target, in the forward pass
\* of the first half, receives the gate made by _gate_u
PairGateDeepestOnly(pair, n_qubits, first, step) ==
    IF pair.target = n_qubits - 1 /\ pair.control = n_qubits - 2 /\ first /\ step = 1
    THEN Gate("cu", <<pair.control, pair.target>>,
              PairSignal(pair, first, step) * PiOver(PairExponent(pair)))
    ELSE Gate("crx", <<pair.control, pair.target>>,
              PairSignal(pair, first, step) * PiOver(PairExponent(pair)))

\* The gate one pair receives.  With gate = diag(1, -1), _gate_u gives the
\* controlled diag(1, e^{i pi / param}), inverted when signal < 0.
PairGate(pair, n_qubits, first, step) ==
    IF pair.target = n_qubits - 1 /\ first
    THEN Gate("cu", <<pair.control, pair.target>>,
              PairSignal(pair, first, step) * PiOver(PairExponent(pair)))
    ELSE Gate("crx", <<pair.control, pair.target>>,
              PairSignal(pair, first, step) * PiOver(PairExponent(pair)))

\* _c1c2(gate, n_qubits, qcirc, first, step): the gates it appends
c1c2(n_qubits, first, step) ==
    LET qubit_pairs == QubitPairs(n_qubits, step) IN
    [k \in 1..Len(qubit_pairs) |-> PairGate(qubit_pairs[k], n_qubits, first, step)]

\* mc_gate: the four passes, composed on controls + [targ]
mc_gate(controls, targ) ==
    LET n_qubits == Len(controls) + 1 IN
    Remap(c1c2(n_qubits, TRUE, 1) \o c1c2(n_qubits, TRUE, 0 - 1)
            \o c1c2(n_qubits - 1, FALSE, 1) \o c1c2(n_qubits - 1, FALSE, 0 - 1),
          Append(controls, targ))

\* multi_control_z(nqubits): controls 0..nqubits-2, target nqubits-1
multi_control_z(nqubits) ==
    mc_gate([k \in 1..(nqubits - 1) |-> k - 1], nqubits - 1)

---------------------------------------------------------------------------
(* oracle_multiples: code/multiples_functions.py *)

\* state_control=None
NoPattern == [none |-> TRUE, val |-> <<>>]

Pattern(bits) == [none |-> FALSE, val |-> bits]

\* classic_register=None
NoFlag == [none |-> TRUE, val |-> FALSE]

Flag(b) == [none |-> FALSE, val |-> b]

\* no call of oracle_multiples in its first phase
NoInitArgs ==
    [k |-> 0, nqubits_input |-> 0, init_H |-> FALSE, classic_register |-> NoFlag,
     variant |-> "none"]

\* no call of oracle_multiples in progress
NoOracleArgs ==
    [k |-> 0, nqubits_input |-> 0, oracle |-> FALSE, qubits_oracle |-> <<>>,
     qubits_control |-> <<>>, state_control |-> NoPattern]

\* np.log2(0) is -inf and np.ceil keeps it; the cast of -inf to a 64-bit
\* integer gives the most negative one.  Only the sign of n_remainders + 1
\* is read afterwards, so a negative value of 32 bits stands for it.
CastOfMinusInfinity == 0 - Pow2(30)

\* n_remainders = np.ceil(np.log2(k)).astype(int), for k >= 0
n_remainders(k) == IF k = 0 THEN CastOfMinusInfinity ELSE CeilLog2(k)

\* len(remainders) = n_remainders + 1
NRemainderWires(a) == n_remainders(a.k) + 1

\* the circuit's wires: input register, remainders register, ancilla
InputWire(a, i) == i

RemainderWire(a, j) == a.nqubits_input + j

AncillaWire(a) == a.nqubits_input + NRemainderWires(a)

\* [remainders[j] for j in range(len(remainders))]
RemainderWires(a) == [j \in 1..NRemainderWires(a) |-> RemainderWire(a, j - 1)]

\* remainders[:-1]
RemainderWiresButGuard(a) ==
    [j \in 1..(NRemainderWires(a) - 1) |-> RemainderWire(a, j - 1)]

\* [input_register[i]] + [remainders[j] ...] + [ancilla[0]]
AdderQargs(a, i) == <<InputWire(a, i)>> \o RemainderWires(a) \o <<AncillaWire(a)>>

\* ops.c_phase_add_mod_K(target_register=range_remainders, control=0,
\*     ancilla_qubit=len(range_remainders)+1, num_sum=..., K=k,
\*     include_QFTs=False)
OracleAdder(a, num_sum) ==
    c_phase_add_mod_K([j \in 1..NRemainderWires(a) |-> j], 0,
                      NRemainderWires(a) + 1, num_sum, a.k, FALSE)

\* a cache that is never hit
IsCachedNever(sums, num_sum) == FALSE

\* `num_sum in circuits_sums`
IsCached(sums, num_sum) == num_sum \in DOMAIN sums

\* circuits_sums with the adder of num_sum added when it is not a key
WithAdder(sums, a, num_sum) ==
    IF IsCached(sums, num_sum) THEN sums
    ELSE (num_sum :> OracleAdder(a, num_sum).gates) @@ sums

\* the calls of c_phase_add_mod_K so far, with the one for num_sum added
\* when it is not a key
WithBuild(builds, sums, num_sum) ==
    IF IsCached(sums, num_sum) THEN builds ELSE Append(builds, num_sum)

\* the inverse of remainder r in the ring is r itself
InverseRemainderSame(k, remainder_original) == remainder_original

\* inverse_remainder = k - remainder_original
InverseRemainder(k, remainder_original) == k - remainder_original

\* circuit.x(qubits): one x per wire
XGates(wires) == [j \in 1..Len(wires) |-> Gate("x", <<wires[j]>>, 0)]

\* circuit.h(register): one h per wire
HGates(wires) == [j \in 1..Len(wires) |-> Gate("h", <<wires[j]>>, 0)]

\* the pattern read in the order given
PatternAsGiven(state_control) == state_control

\* state_control[::-1]
Reversed(state_control) ==
    [j \in 1..Len(state_control) |-> state_control[Len(state_control) + 1 - j]]

\* [wires[i] for i, state in enumerate(pattern) if state == 0], from i on
RECURSIVE WiresAtZero(_, _, _)
WiresAtZero(wires, pattern, i) ==
    IF i > Len(pattern) THEN <<>>
    ELSE (IF pattern[i] = 0 THEN <<wires[i]>> ELSE <<>>)
         \o WiresAtZero(wires, pattern, i + 1)

\* `not state_control`: None or an empty list
PatternMissing(state_control) == state_control.none \/ state_control.val = <<>>

\* with no pattern, no wire is negated
DefaultNotGatesNone(wires) == <<>>

\* qubits_apply_not_gate = qubits_control, when no pattern is given
DefaultNotGates(wires) == wires

\* qubits_apply_not_gate
NotGateWires(wires, state_control) ==
    IF PatternMissing(state_control) THEN DefaultNotGates(wires)
    ELSE WiresAtZero(wires, Reversed(state_control.val), 1)

\* the wires the pattern is laid on: qubits_control, or qubits_oracle when
\* there is no control
PatternWires(a) ==
    IF a.qubits_control # <<>> THEN a.qubits_control ELSE a.qubits_oracle

\* assert len(...) == len(state_control) fails
PatternAssertFails(a) ==
    /\ ~PatternMissing(a.state_control)
    /\ Len(PatternWires(a)) # Len(a.state_control.val)

\* The gates of the extra-oracle branch: negate, apply (controlled on
\* qubits_control when given), negate again
ExtraOracleGates(a) ==
    LET nots == NotGateWires(PatternWires(a), a.state_control) IN
    XGates(nots)
    \o << Gate("oracle", a.qubits_control \o a.qubits_oracle, Len(a.qubits_control)) >>
    \o XGates(nots)

\* The gates of the default marking: X on remainders[:-1],
\* multi_control_z(len(remainders)-1) on them, X again
DefaultMarkGates(a) ==
    XGates(RemainderWiresButGuard(a))
    \o << SubCircuit(multi_control_z(NRemainderWires(a) - 1), RemainderWiresButGuard(a)) >>
    \o XGates(RemainderWiresButGuard(a))

---------------------------------------------------------------------------
(* get_angles_phase_addition as a state machine *)

NoBinary == [none |-> TRUE, str |-> <<>>]

\* no call of c_phase_add_mod_K in progress
NoArgs ==
    [target_register |-> <<>>, control |-> 0, ancilla_qubit |-> 0,
     num_sum |-> 0, K |-> 0, include_QFTs |-> FALSE]

AngInit ==
    /\ gNq \in 1..MaxW
    /\ gNumber \in 0..Pow2(gNq)
    /\ gBinary = NoBinary
    /\ gAngles = <<>>
    /\ gPc = "to_binary"
    /\ rK = 0 /\ rPower = 0 /\ rList = <<>> /\ rP = 0 /\ rPc = "idle"
    /\ rVia = "none"
    /\ aArgs = NoArgs /\ aStmt = 0 /\ aCirc = <<>> /\ aPc = "idle"
    /\ aSim = BasisState(<<>>) /\ aIdx = 0 /\ aX = 0 /\ aC = 0
    /\ oArgs = NoOracleArgs /\ oPc = "idle" /\ oI = 0 /\ oRem = <<>>
    /\ oSums = <<>> /\ oCirc = <<>> /\ oErr = "none"
    /\ oSim = BasisState(<<>>) /\ oIdx = 0 /\ oX = 0 /\ oBuilds = <<>>
    /\ iArgs = NoInitArgs /\ iPc = "idle" /\ iNRem = 0 /\ iFlag = FALSE
    /\ iRegs = <<>> /\ iQregs = <<>> /\ iCirc = <<>> /\ iErr = "none"
    /\ dN = 0 /\ dPass = 0 /\ dPairs = <<>> /\ dIdx = 0 /\ dOut = <<>>
    /\ dPc = "idle"

\* num_binary = ut_multiples.to_binary(number=number_, nbits=nqubits)
AngToBinary ==
    /\ gPc = "to_binary"
    /\ gBinary' = to_binary(gNumber, gNq)
    /\ gPc' = "comprehension"
    /\ UNCHANGED <<iniVars, decVars, gNumber, gNq, gAngles, remVars, addVars, orVars>>

\* one element of the list comprehension over i in range(nqubits)
AngElementStep ==
    /\ gPc = "comprehension"
    /\ Len(gAngles) < gNq
    /\ ~gBinary.none
    /\ gAngles' = Append(gAngles, AngleElement(gBinary.str, gNq, Len(gAngles)))
    /\ UNCHANGED <<iniVars, decVars, gNumber, gNq, gBinary, gPc, remVars, addVars, orVars>>

\* num_binary[j] on None: TypeError, nothing is returned
AngTypeError ==
    /\ gPc = "comprehension"
    /\ Len(gAngles) < gNq
    /\ gBinary.none
    /\ gPc' = "error"
    /\ UNCHANGED <<iniVars, decVars, gNumber, gNq, gBinary, gAngles, remVars, addVars, orVars>>

\* return angles
AngReturn ==
    /\ gPc = "comprehension"
    /\ Len(gAngles) = gNq
    /\ gPc' = "done"
    /\ UNCHANGED <<iniVars, decVars, gNumber, gNq, gBinary, gAngles, remVars, addVars, orVars>>

AngNext ==
    \/ AngToBinary
    \/ AngElementStep
    \/ AngTypeError
    \/ AngReturn

---------------------------------------------------------------------------
(* c_phase_add_mod_K as a state machine: build, then run on a basis input *)

\* Wires of the adder circuit, as oracle_multiples lays them out:
\* control = 0, target_register = 1..nqubits, ancilla_qubit = nqubits + 1
AdderArgs(K, nqubits, num_sum, include_QFTs) ==
    [target_register |-> [k \in 1..nqubits |-> k], control |-> 0,
     ancilla_qubit |-> nqubits + 1, num_sum |-> num_sum, K |-> K,
     include_QFTs |-> include_QFTs]

\* the register width oracle_multiples gives the adder: n_remainders + 1
GuardedWidth(K) == CeilLog2(K) + 1

\* basis input: control bit c, register value x, ancilla 0
AdderInput(a, x, c) ==
    BasisState([w \in 0..a.ancilla_qubit |->
                  IF w = a.control THEN c
                  ELSE IF w = a.ancilla_qubit THEN 0
                  ELSE BitOfValue(x, w - 1)])

AddInit ==
    /\ \E K \in 2..MaxK, nq \in 1..GuardedWidth(MaxK), m \in 0..MaxK,
          inc \in BOOLEAN :
            /\ m <= K
            /\ aArgs = AdderArgs(K, nq, m, inc)
    /\ aStmt = 1
    /\ aCirc = <<>>
    /\ aPc = "build"
    /\ aSim = BasisState(<<>>) /\ aIdx = 0 /\ aX = 0 /\ aC = 0
    /\ oArgs = NoOracleArgs /\ oPc = "idle" /\ oI = 0 /\ oRem = <<>>
    /\ oSums = <<>> /\ oCirc = <<>> /\ oErr = "none"
    /\ oSim = BasisState(<<>>) /\ oIdx = 0 /\ oX = 0 /\ oBuilds = <<>>
    /\ gNumber = 0 /\ gNq = 0 /\ gBinary = NoBinary /\ gAngles = <<>>
    /\ gPc = "idle"
    /\ rK = 0 /\ rPower = 0 /\ rList = <<>> /\ rP = 0 /\ rPc = "idle"
    /\ rVia = "none"
    /\ iArgs = NoInitArgs /\ iPc = "idle" /\ iNRem = 0 /\ iFlag = FALSE
    /\ iRegs = <<>> /\ iQregs = <<>> /\ iCirc = <<>> /\ iErr = "none"
    /\ dN = 0 /\ dPass = 0 /\ dPairs = <<>> /\ dIdx = 0 /\ dOut = <<>>
    /\ dPc = "idle"

\* a statement that appends its gates
AdderAppend ==
    /\ aPc = "build"
    /\ aStmt <= AdderLastStmt
    /\ ~AdderStmt(aStmt, aArgs).err
    /\ aCirc' = aCirc \o AdderStmt(aStmt, aArgs).gates
    /\ aStmt' = aStmt + 1
    /\ UNCHANGED <<iniVars, decVars, aArgs, aPc, aSim, aIdx, aX, aC, angVars, remVars, orVars>>

\* a statement whose angle vector cannot be computed: the exception leaves
\* the function, the circuit built so far is dropped with the frame
AdderRaise ==
    /\ aPc = "build"
    /\ aStmt <= AdderLastStmt
    /\ AdderStmt(aStmt, aArgs).err
    /\ aPc' = "error"
    /\ UNCHANGED <<iniVars, decVars, aArgs, aStmt, aCirc, aSim, aIdx, aX, aC, angVars, remVars, orVars>>

\* return circuit
AdderReturn ==
    /\ aPc = "build"
    /\ aStmt > AdderLastStmt
    /\ aPc' = "built"
    /\ UNCHANGED <<iniVars, decVars, aArgs, aStmt, aCirc, aSim, aIdx, aX, aC, angVars, remVars, orVars>>

\* The returned circuit is run on a basis input.  Without the outer
\* transforms the caller has put the register in the phase basis.
AdderRunStart ==
    /\ aPc = "built"
    /\ \E x \in 0..(Pow2(Len(aArgs.target_register)) - 1), c \in 0..1 :
          /\ aX' = x
          /\ aC' = c
          /\ aSim' = IF aArgs.include_QFTs THEN AdderInput(aArgs, x, c)
                     ELSE ApplyQFT(aArgs.target_register, AdderInput(aArgs, x, c))
    /\ aIdx' = 1
    /\ aPc' = "run"
    /\ UNCHANGED <<iniVars, decVars, aArgs, aStmt, aCirc, angVars, remVars, orVars>>

\* the next gate of the circuit
AdderRunGate ==
    /\ aPc = "run"
    /\ aIdx <= Len(aCirc)
    /\ aSim' = ApplyGate(aCirc[aIdx], aSim)
    /\ aIdx' = aIdx + 1
    /\ UNCHANGED <<iniVars, decVars, aArgs, aStmt, aCirc, aPc, aX, aC, angVars, remVars, orVars>>

\* the circuit has run; without the outer transforms the caller leaves the
\* phase basis
AdderRunEnd ==
    /\ aPc = "run"
    /\ aIdx > Len(aCirc)
    /\ aSim' = IF aArgs.include_QFTs THEN aSim
               ELSE ApplyIQFT(aArgs.target_register, aSim)
    /\ aPc' = "ran"
    /\ UNCHANGED <<iniVars, decVars, aArgs, aStmt, aCirc, aIdx, aX, aC, angVars, remVars, orVars>>

AddNext ==
    \/ AdderAppend
    \/ AdderRaise
    \/ AdderReturn
    \/ AdderRunStart
    \/ AdderRunGate
    \/ AdderRunEnd

---------------------------------------------------------------------------
(* get_remainders_power_2: utilities_multiples.py *)

\* the conditional subtraction with a strict comparison: check_num > number
ReduceStrict(check_num, number) ==
    IF check_num > number THEN check_num - number ELSE check_num

\* if check_num >= number: check_num = check_num - number
Reduce(check_num, number) ==
    IF check_num >= number THEN check_num - number ELSE check_num

\* remainders * complete_repetitions
RECURSIVE Repeat(_, _)
Repeat(s, n) == IF n <= 0 THEN <<>> ELSE s \o Repeat(s, n - 1)

\* remainders[:power+1]
Prefix(s, n) == SubSeq(s, 1, IF n < Len(s) THEN n ELSE Len(s))

\* complete_repetitions = power // len(remainders) + 1
Tile(remainders, power) ==
    Prefix(Repeat(remainders, (power \div Len(remainders)) + 1), power + 1)

\* check_num of the loop body for the current list
CheckNum(remainders, number) == Reduce(remainders[Len(remainders)] * 2, number)

\* The whole function: the for loop run to its end
RECURSIVE RemLoop(_, _, _, _)
RemLoop(number, power, remainders, p) ==
    IF p > power THEN remainders
    ELSE IF CheckNum(remainders, number) = 1 THEN Tile(remainders, power)
    ELSE RemLoop(number, power, Append(remainders, CheckNum(remainders, number)), p + 1)

get_remainders_power_2(number, power) == RemLoop(number, power, <<1, 2>>, 2)

RemInit ==
    /\ rK \in 2..MaxK
    /\ rPower \in 0..MaxP
    /\ rList = <<1, 2>>
    /\ rP = 2
    /\ rPc = "loop"
    /\ rVia = "none"
    /\ gNumber = 0 /\ gNq = 0 /\ gBinary = NoBinary /\ gAngles = <<>>
    /\ gPc = "idle"
    /\ aArgs = NoArgs /\ aStmt = 0 /\ aCirc = <<>> /\ aPc = "idle"
    /\ aSim = BasisState(<<>>) /\ aIdx = 0 /\ aX = 0 /\ aC = 0
    /\ oArgs = NoOracleArgs /\ oPc = "idle" /\ oI = 0 /\ oRem = <<>>
    /\ oSums = <<>> /\ oCirc = <<>> /\ oErr = "none"
    /\ oSim = BasisState(<<>>) /\ oIdx = 0 /\ oX = 0 /\ oBuilds = <<>>
    /\ iArgs = NoInitArgs /\ iPc = "idle" /\ iNRem = 0 /\ iFlag = FALSE
    /\ iRegs = <<>> /\ iQregs = <<>> /\ iCirc = <<>> /\ iErr = "none"
    /\ dN = 0 /\ dPass = 0 /\ dPairs = <<>> /\ dIdx = 0 /\ dOut = <<>>
    /\ dPc = "idle"

\* loop body, no cycle found: remainders.append(check_num)
RemAppend ==
    /\ rPc = "loop"
    /\ rP <= rPower
    /\ CheckNum(rList, rK) # 1
    /\ rList' = Append(rList, CheckNum(rList, rK))
    /\ rP' = rP + 1
    /\ UNCHANGED <<iniVars, decVars, rK, rPower, rPc, rVia, angVars, addVars, orVars>>

\* loop body, check_num == 1: tile the cycle, break, return
RemCycle ==
    /\ rPc = "loop"
    /\ rP <= rPower
    /\ CheckNum(rList, rK) = 1
    /\ rList' = Tile(rList, rPower)
    /\ rPc' = "done"
    /\ rVia' = "cycle"
    /\ UNCHANGED <<iniVars, decVars, rK, rPower, rP, angVars, addVars, orVars>>

\* range(2, power + 1) exhausted: return remainders
RemExhausted ==
    /\ rPc = "loop"
    /\ rP > rPower
    /\ rPc' = "done"
    /\ rVia' = "loop"
    /\ UNCHANGED <<iniVars, decVars, rK, rPower, rList, rP, angVars, addVars, orVars>>

RemNext ==
    \/ RemAppend
    \/ RemCycle
    \/ RemExhausted

---------------------------------------------------------------------------
(* oracle_multiples as a state machine: build, then run on a basis input *)

\* largest input register drawn
MaxN == 4

\* The machine starts where the first phase of oracle_multiples ends (it is
\* modelled on its own further down), with init_H = False: the circuit of
\* the three registers exists and holds no gate yet.

\* the input wires not used as controls, in order
RECURSIVE WiresNotIn(_, _, _)
WiresNotIn(i, n, used) ==
    IF i >= n THEN <<>>
    ELSE (IF i \in used THEN <<>> ELSE <<i>>) \o WiresNotIn(i + 1, n, used)

\* control lists drawn: none, or one or two distinct input wires in either
\* order, leaving an input wire for the extra oracle
ControlChoices(n) ==
    {c \in {<<>>, <<0>>, <<1>>, <<0, 1>>, <<1, 0>>} :
        /\ Len(c) < n \/ c = <<>>
        /\ \A j \in 1..Len(c) : c[j] < n}

\* patterns drawn: None, the empty list, and every bit list of length 1, 2
PatternChoices ==
    {NoPattern, Pattern(<<>>)}
    \cup {Pattern(<<b>>) : b \in 0..1}
    \cup {Pattern(<<b1, b2>>) : b1 \in 0..1, b2 \in 0..1}

OInit ==
    /\ \E k \in 1..MaxK, n \in 1..MaxN, orc \in BOOLEAN,
          c \in {<<>>, <<0>>, <<1>>, <<0, 1>>, <<1, 0>>}, pat \in PatternChoices :
            /\ c \in ControlChoices(n)
            /\ ~orc => (c = <<>> /\ pat = NoPattern)
            /\ oArgs = [k |-> k, nqubits_input |-> n, oracle |-> orc,
                        qubits_oracle |-> IF orc THEN WiresNotIn(0, n, {c[j] : j \in 1..Len(c)})
                                          ELSE <<>>,
                        qubits_control |-> c, state_control |-> pat]
    /\ oPc = "superpose"
    /\ oI = 0 /\ oRem = <<>> /\ oSums = <<>> /\ oCirc = <<>> /\ oErr = "none"
    /\ oSim = BasisState(<<>>) /\ oIdx = 0 /\ oX = 0 /\ oBuilds = <<>>
    /\ aArgs = NoArgs /\ aStmt = 0 /\ aCirc = <<>> /\ aPc = "idle"
    /\ aSim = BasisState(<<>>) /\ aIdx = 0 /\ aX = 0 /\ aC = 0
    /\ gNumber = 0 /\ gNq = 0 /\ gBinary = NoBinary /\ gAngles = <<>>
    /\ gPc = "idle"
    /\ rK = 0 /\ rPower = 0 /\ rList = <<>> /\ rP = 0 /\ rPc = "idle"
    /\ rVia = "none"
    /\ iArgs = NoInitArgs /\ iPc = "idle" /\ iNRem = 0 /\ iFlag = FALSE
    /\ iRegs = <<>> /\ iQregs = <<>> /\ iCirc = <<>> /\ iErr = "none"
    /\ dN = 0 /\ dPass = 0 /\ dPairs = <<>> /\ dIdx = 0 /\ dOut = <<>>
    /\ dPc = "idle"

\* circuit.h(remainders); list_remainders = get_remainders_power_2(k,
\* nqubits_input-1); circuits_sums = {}
OSuperpose ==
    /\ oPc = "superpose"
    /\ oCirc' = oCirc \o HGates(RemainderWires(oArgs))
    /\ oRem' = get_remainders_power_2(oArgs.k, oArgs.nqubits_input - 1)
    /\ oSums' = <<>>
    /\ oBuilds' = <<>>
    /\ oI' = 0
    /\ oPc' = "foldin"
    /\ UNCHANGED <<iniVars, decVars, oArgs, oErr, oSim, oIdx, oX, angVars, remVars, addVars>>

\* one turn of the fold-in loop: build the adder of the remainder unless
\* cached, append it on input wire i
OFoldIn ==
    /\ oPc = "foldin"
    /\ oI < Len(oRem)
    /\ IsCached(oSums, oRem[oI + 1]) \/ ~OracleAdder(oArgs, oRem[oI + 1]).err
    /\ oI < oArgs.nqubits_input
    /\ oSums' = WithAdder(oSums, oArgs, oRem[oI + 1])
    /\ oBuilds' = WithBuild(oBuilds, oSums, oRem[oI + 1])
    /\ oCirc' = Append(oCirc, SubCircuit(oSums'[oRem[oI + 1]], AdderQargs(oArgs, oI)))
    /\ oI' = oI + 1
    /\ UNCHANGED <<iniVars, decVars, oArgs, oPc, oRem, oErr, oSim, oIdx, oX, angVars, remVars, addVars>>

\* the adder of the remainder cannot be built: the remainder does not fit
\* the remainders register
OFoldInTypeError ==
    /\ oPc = "foldin"
    /\ oI < Len(oRem)
    /\ ~IsCached(oSums, oRem[oI + 1])
    /\ OracleAdder(oArgs, oRem[oI + 1]).err
    /\ oBuilds' = WithBuild(oBuilds, oSums, oRem[oI + 1])
    /\ oPc' = "error"
    /\ oErr' = "TypeError"
    /\ UNCHANGED <<iniVars, decVars, oArgs, oI, oRem, oSums, oCirc, oSim, oIdx, oX,
                   angVars, remVars, addVars>>

\* input_register[i] with i past the register: list_remainders is longer
\* than the input register
OFoldInIndexError ==
    /\ oPc = "foldin"
    /\ oI < Len(oRem)
    /\ IsCached(oSums, oRem[oI + 1]) \/ ~OracleAdder(oArgs, oRem[oI + 1]).err
    /\ oI >= oArgs.nqubits_input
    /\ oSums' = WithAdder(oSums, oArgs, oRem[oI + 1])
    /\ oBuilds' = WithBuild(oBuilds, oSums, oRem[oI + 1])
    /\ oPc' = "error"
    /\ oErr' = "IndexError"
    /\ UNCHANGED <<iniVars, decVars, oArgs, oI, oRem, oCirc, oSim, oIdx, oX, angVars, remVars, addVars>>

\* the fold-in loop is over: inverse QFT on remainders
OFoldInDone ==
    /\ oPc = "foldin"
    /\ oI >= Len(oRem)
    /\ oCirc' = Append(oCirc, Gate("IQFT", RemainderWires(oArgs), 0))
    /\ oPc' = "mark"
    /\ UNCHANGED <<iniVars, decVars, oBuilds, oArgs, oI, oRem, oSums, oErr, oSim, oIdx, oX,
                   angVars, remVars, addVars>>

\* no extra oracle: mark the multiples; then QFT on remainders
OMarkDefault ==
    /\ oPc = "mark"
    /\ ~oArgs.oracle
    /\ oCirc' = oCirc \o DefaultMarkGates(oArgs)
                      \o << Gate("QFT", RemainderWires(oArgs), 0) >>
    /\ oPc' = "foldout"
    /\ oI' = 0
    /\ UNCHANGED <<iniVars, decVars, oBuilds, oArgs, oRem, oSums, oErr, oSim, oIdx, oX, angVars, remVars, addVars>>

\* extra oracle: negate, apply, negate; then QFT on remainders
OMarkExtra ==
    /\ oPc = "mark"
    /\ oArgs.oracle
    /\ ~PatternAssertFails(oArgs)
    /\ oCirc' = oCirc \o ExtraOracleGates(oArgs)
                      \o << Gate("QFT", RemainderWires(oArgs), 0) >>
    /\ oPc' = "foldout"
    /\ oI' = 0
    /\ UNCHANGED <<iniVars, decVars, oBuilds, oArgs, oRem, oSums, oErr, oSim, oIdx, oX, angVars, remVars, addVars>>

\* extra oracle with a pattern of another length: the assert fails
OMarkAssertionError ==
    /\ oPc = "mark"
    /\ oArgs.oracle
    /\ PatternAssertFails(oArgs)
    /\ oPc' = "error"
    /\ oErr' = "AssertionError"
    /\ UNCHANGED <<iniVars, decVars, oBuilds, oArgs, oI, oRem, oSums, oCirc, oSim, oIdx, oX,
                   angVars, remVars, addVars>>

\* one turn of the fold-out loop: the adder of k - remainder on input wire i
\* (it always fits: 0 <= k - remainder <= k)
OFoldOut ==
    /\ oPc = "foldout"
    /\ oI < Len(oRem)
    /\ LET inverse_remainder == InverseRemainder(oArgs.k, oRem[oI + 1]) IN
          /\ oSums' = WithAdder(oSums, oArgs, inverse_remainder)
          /\ oBuilds' = WithBuild(oBuilds, oSums, inverse_remainder)
          /\ oCirc' = Append(oCirc, SubCircuit(oSums'[inverse_remainder],
                                               AdderQargs(oArgs, oI)))
    /\ oI' = oI + 1
    /\ UNCHANGED <<iniVars, decVars, oArgs, oPc, oRem, oErr, oSim, oIdx, oX, angVars, remVars, addVars>>

\* the fold-out loop is over: inverse QFT on remainders, return circuit
OReturn ==
    /\ oPc = "foldout"
    /\ oI >= Len(oRem)
    /\ oCirc' = Append(oCirc, Gate("IQFT", RemainderWires(oArgs), 0))
    /\ oPc' = "built"
    /\ UNCHANGED <<iniVars, decVars, oBuilds, oArgs, oI, oRem, oSums, oErr, oSim, oIdx, oX,
                   angVars, remVars, addVars>>

\* basis input: the input register holds x, every other wire 0
OracleInput(a, x) ==
    BasisState([w \in 0..AncillaWire(a) |->
                  IF w < a.nqubits_input THEN BitOfValue(x, w) ELSE 0])

\* the returned circuit is run on a basis input
ORunStart ==
    /\ oPc = "built"
    /\ \E x \in 0..(Pow2(oArgs.nqubits_input) - 1) :
          /\ oX' = x
          /\ oSim' = OracleInput(oArgs, x)
    /\ oIdx' = 1
    /\ oPc' = "run"
    /\ UNCHANGED <<iniVars, decVars, oBuilds, oArgs, oI, oRem, oSums, oCirc, oErr, angVars, remVars, addVars>>

\* the next instruction of the circuit
ORunGate ==
    /\ oPc = "run"
    /\ oIdx <= Len(oCirc)
    /\ oSim' = ApplyGate(oCirc[oIdx], oSim)
    /\ oIdx' = oIdx + 1
    /\ UNCHANGED <<iniVars, decVars, oBuilds, oArgs, oPc, oI, oRem, oSums, oCirc, oErr, oX,
                   angVars, remVars, addVars>>

\* the circuit has run
ORunEnd ==
    /\ oPc = "run"
    /\ oIdx > Len(oCirc)
    /\ oPc' = "ran"
    /\ UNCHANGED <<iniVars, decVars, oBuilds, oArgs, oI, oRem, oSums, oCirc, oErr, oSim, oIdx, oX,
                   angVars, remVars, addVars>>

ONext ==
    \/ OSuperpose
    \/ OFoldIn
    \/ OFoldInTypeError
    \/ OFoldInIndexError
    \/ OFoldInDone
    \/ OMarkDefault
    \/ OMarkExtra
    \/ OMarkAssertionError
    \/ OFoldOut
    \/ OReturn
    \/ ORunStart
    \/ ORunGate
    \/ ORunEnd

---------------------------------------------------------------------------
(* The first phase of oracle_multiples, up to the fold-in loop, in the two
   files that define it: code/multiples_functions.py ("code") and
   multiples_functions.py ("root") *)

\* classic_register = init_H (code/multiples_functions.py)
DefaultClassicRegisterCode(init_H) == init_H

\* classic_register = not init_H (multiples_functions.py)
DefaultClassicRegisterRoot(init_H) == ~init_H

\* the value classic_register takes when it is None
DefaultClassicRegister(variant, init_H) ==
    IF variant = "code" THEN DefaultClassicRegisterCode(init_H)
    ELSE DefaultClassicRegisterRoot(init_H)

\* QuantumRegister(size, name), ClassicalRegister(size)
Register(name, size) == [name |-> name, size |-> size]

\* the wires of input_register
InputWires(a) == [j \in 1..a.nqubits_input |-> InputWire(a, j - 1)]

\* if init_H: circuit.h(input_register); circuit.h(remainders)
SuperposeGates(a) ==
    (IF a.init_H THEN HGates(InputWires(a)) ELSE <<>>) \o HGates(RemainderWires(a))

InitInit ==
    /\ \E k \in 0..MaxK, n \in 1..MaxN, h \in BOOLEAN,
          c \in {NoFlag, Flag(TRUE), Flag(FALSE)}, v \in {"code", "root"} :
            iArgs = [k |-> k, nqubits_input |-> n, init_H |-> h,
                     classic_register |-> c, variant |-> v]
    /\ iPc = "n_remainders"
    /\ iNRem = 0 /\ iFlag = FALSE
    /\ iRegs = <<>> /\ iQregs = <<>> /\ iCirc = <<>> /\ iErr = "none"
    /\ oArgs = NoOracleArgs /\ oPc = "idle" /\ oI = 0 /\ oRem = <<>>
    /\ oSums = <<>> /\ oCirc = <<>> /\ oErr = "none"
    /\ oSim = BasisState(<<>>) /\ oIdx = 0 /\ oX = 0 /\ oBuilds = <<>>
    /\ aArgs = NoArgs /\ aStmt = 0 /\ aCirc = <<>> /\ aPc = "idle"
    /\ aSim = BasisState(<<>>) /\ aIdx = 0 /\ aX = 0 /\ aC = 0
    /\ gNumber = 0 /\ gNq = 0 /\ gBinary = NoBinary /\ gAngles = <<>>
    /\ gPc = "idle"
    /\ rK = 0 /\ rPower = 0 /\ rList = <<>> /\ rP = 0 /\ rPc = "idle"
    /\ rVia = "none"
    /\ dN = 0 /\ dPass = 0 /\ dPairs = <<>> /\ dIdx = 0 /\ dOut = <<>>
    /\ dPc = "idle"

\* n_remainders = np.ceil(np.log2(k)).astype(int)
InitRemainderCount ==
    /\ iPc = "n_remainders"
    /\ iNRem' = n_remainders(iArgs.k)
    /\ iPc' = "classic_register"
    /\ UNCHANGED <<iArgs, iFlag, iRegs, iQregs, iCirc, iErr,
                   angVars, remVars, addVars, orVars, decVars>>

\* if classic_register is None: classic_register = ...
InitDefaultFlag ==
    /\ iPc = "classic_register"
    /\ iFlag' = IF iArgs.classic_register.none
                THEN DefaultClassicRegister(iArgs.variant, iArgs.init_H)
                ELSE iArgs.classic_register.val
    /\ iPc' = "registers"
    /\ UNCHANGED <<iArgs, iNRem, iRegs, iQregs, iCirc, iErr,
                   angVars, remVars, addVars, orVars, decVars>>

\* input_register, remainders, ancilla
InitRegisters ==
    /\ iPc = "registers"
    /\ iNRem + 1 >= 0
    /\ iRegs' = << Register("input", iArgs.nqubits_input),
                   Register("remainders", iNRem + 1),
                   Register("ancilla", 1) >>
    /\ iPc' = "circuit"
    /\ UNCHANGED <<iArgs, iNRem, iFlag, iQregs, iCirc, iErr,
                   angVars, remVars, addVars, orVars, decVars>>

\* QuantumRegister(n_remainders + 1, 'remainders') with a negative size
InitRegistersCircuitError ==
    /\ iPc = "registers"
    /\ iNRem + 1 < 0
    /\ iRegs' = << Register("input", iArgs.nqubits_input) >>
    /\ iPc' = "error"
    /\ iErr' = "CircuitError"
    /\ UNCHANGED <<iArgs, iNRem, iFlag, iQregs, iCirc,
                   angVars, remVars, addVars, orVars, decVars>>

\* if classic_register: the circuit gets a ClassicalRegister as well
InitCircuitClassic ==
    /\ iPc = "circuit"
    /\ iFlag
    /\ iRegs' = Append(iRegs, Register("classic_multiples", iArgs.nqubits_input))
    /\ iQregs' = <<"input", "remainders", "ancilla", "classic_multiples">>
    /\ iPc' = "superpose"
    /\ UNCHANGED <<iArgs, iNRem, iFlag, iCirc, iErr,
                   angVars, remVars, addVars, orVars, decVars>>

\* else, in code/multiples_functions.py: the circuit of the three registers
InitCircuitPlain ==
    /\ iPc = "circuit"
    /\ ~iFlag
    /\ iArgs.variant = "code"
    /\ iQregs' = <<"input", "remainders", "ancilla">>
    /\ iPc' = "superpose"
    /\ UNCHANGED <<iArgs, iNRem, iFlag, iRegs, iCirc, iErr,
                   angVars, remVars, addVars, orVars, decVars>>

\* else, in multiples_functions.py: the else branch passes classic_multiples,
\* a local name that was never bound
InitCircuitUnboundLocalError ==
    /\ iPc = "circuit"
    /\ ~iFlag
    /\ iArgs.variant = "root"
    /\ iPc' = "error"
    /\ iErr' = "UnboundLocalError"
    /\ UNCHANGED <<iArgs, iNRem, iFlag, iRegs, iQregs, iCirc,
                   angVars, remVars, addVars, orVars, decVars>>

\* if init_H: circuit.h(input_register); circuit.h(remainders); the fold-in
\* loop follows
InitSuperpose ==
    /\ iPc = "superpose"
    /\ iCirc' = iCirc \o SuperposeGates(iArgs)
    /\ iPc' = "foldin"
    /\ UNCHANGED <<iArgs, iNRem, iFlag, iRegs, iQregs, iErr,
                   angVars, remVars, addVars, orVars, decVars>>

InitNext ==
    \/ InitRemainderCount
    \/ InitDefaultFlag
    \/ InitRegisters
    \/ InitRegistersCircuitError
    \/ InitCircuitClassic
    \/ InitCircuitPlain
    \/ InitCircuitUnboundLocalError
    \/ InitSuperpose

---------------------------------------------------------------------------
(* mc_gate as a state machine: the four calls of _c1c2, pair by pair *)

\* largest n_qubits = len(controls) + 1 drawn
MaxQ == 6

\* the four calls of _c1c2 in mc_gate, in order
LastPass == 4

\* n_qubits, first and step of the pass-th call
PassWidth(n_qubits, pass) == IF pass <= 2 THEN n_qubits ELSE n_qubits - 1

PassFirst(pass) == pass <= 2

PassStep(pass) == IF pass % 2 = 1 THEN 1 ELSE 0 - 1

\* the gate the pair at dIdx receives in the call in progress
CurrentPairGate ==
    PairGate(dPairs[dIdx], PassWidth(dN, dPass), PassFirst(dPass), PassStep(dPass))

\* what the loop of _c1c2 appends for one pair
Emitted(pass, pair, gate) == [pass |-> pass, pair |-> pair, gate |-> gate]

DecInit ==
    /\ dN \in 1..MaxQ
    /\ dPass = 0 /\ dPairs = <<>> /\ dIdx = 0 /\ dOut = <<>>
    /\ dPc = "mc_gate"
    /\ iArgs = NoInitArgs /\ iPc = "idle" /\ iNRem = 0 /\ iFlag = FALSE
    /\ iRegs = <<>> /\ iQregs = <<>> /\ iCirc = <<>> /\ iErr = "none"
    /\ oArgs = NoOracleArgs /\ oPc = "idle" /\ oI = 0 /\ oRem = <<>>
    /\ oSums = <<>> /\ oCirc = <<>> /\ oErr = "none"
    /\ oSim = BasisState(<<>>) /\ oIdx = 0 /\ oX = 0 /\ oBuilds = <<>>
    /\ aArgs = NoArgs /\ aStmt = 0 /\ aCirc = <<>> /\ aPc = "idle"
    /\ aSim = BasisState(<<>>) /\ aIdx = 0 /\ aX = 0 /\ aC = 0
    /\ gNumber = 0 /\ gNq = 0 /\ gBinary = NoBinary /\ gAngles = <<>>
    /\ gPc = "idle"
    /\ rK = 0 /\ rPower = 0 /\ rList = <<>> /\ rP = 0 /\ rPc = "idle"
    /\ rVia = "none"

\* the next call of _c1c2: qubit_pairs is built and sorted
DecCall ==
    /\ dPc = "mc_gate"
    /\ dPass < LastPass
    /\ dPass' = dPass + 1
    /\ dPairs' = QubitPairs(PassWidth(dN, dPass'), PassStep(dPass'))
    /\ dIdx' = 1
    /\ dPc' = "_c1c2"
    /\ UNCHANGED <<dN, dOut, angVars, remVars, addVars, orVars, iniVars>>

\* for pair in qubit_pairs, target == n_qubits - 1 and first: the gate of
\* _gate_u is composed on the pair
DecPairFractional ==
    /\ dPc = "_c1c2"
    /\ dIdx <= Len(dPairs)
    /\ CurrentPairGate.op = "cu"
    /\ dOut' = Append(dOut, Emitted(dPass, dPairs[dIdx], CurrentPairGate))
    /\ dIdx' = dIdx + 1
    /\ UNCHANGED <<dN, dPass, dPairs, dPc, angVars, remVars, addVars, orVars, iniVars>>

\* for pair in qubit_pairs, otherwise: qcirc.crx on the pair
DecPairRotation ==
    /\ dPc = "_c1c2"
    /\ dIdx <= Len(dPairs)
    /\ CurrentPairGate.op = "crx"
    /\ dOut' = Append(dOut, Emitted(dPass, dPairs[dIdx], CurrentPairGate))
    /\ dIdx' = dIdx + 1
    /\ UNCHANGED <<dN, dPass, dPairs, dPc, angVars, remVars, addVars, orVars, iniVars>>

\* the loop of _c1c2 is over
DecCallEnd ==
    /\ dPc = "_c1c2"
    /\ dIdx > Len(dPairs)
    /\ dPc' = "mc_gate"
    /\ UNCHANGED <<dN, dPass, dPairs, dIdx, dOut, angVars, remVars, addVars, orVars, iniVars>>

\* circuit.compose(gate_circuit, controls + [targ])
DecCompose ==
    /\ dPc = "mc_gate"
    /\ dPass = LastPass
    /\ dPc' = "done"
    /\ UNCHANGED <<dN, dPass, dPairs, dIdx, dOut, angVars, remVars, addVars, orVars, iniVars>>

DecNext ==
    \/ DecCall
    \/ DecPairFractional
    \/ DecPairRotation
    \/ DecCallEnd
    \/ DecCompose

---------------------------------------------------------------------------
(* Properties of c_phase_add_mod_K (SpecAdder) *)

\* the case the adder's contract covers: guarded width, addend and register
\* value below K, ancilla initially 0, and the circuit has run
AdderContractCase ==
    /\ aPc = "ran"
    /\ Len(aArgs.target_register) = GuardedWidth(aArgs.K)
    /\ aArgs.num_sum < aArgs.K
    /\ aX < aArgs.K

\* C1: for every K >= 2, register width ceil(log2 K)+1, addend 0 <= m < K,
\* register value 0 <= x < K and control bit c, the three stages leave the
\* register holding (x + m) mod K when c = 1 and x when c = 0.
C1_AdderResult ==
    AdderContractCase =>
        /\ ~aSim.bad
        /\ aSim.inph = {}
        /\ aSim.bit[aArgs.control] = aC
        /\ RegValue(aSim, aArgs.target_register) =
              IF aC = 1 THEN (aX + aArgs.num_sum) % aArgs.K ELSE aX

\* C1 witness: an addition that wraps around K with the control active
C1_Witness ==
    /\ AdderContractCase /\ aC = 1
    /\ aX + aArgs.num_sum > aArgs.K
    /\ RegValue(aSim, aArgs.target_register) = aX + aArgs.num_sum - aArgs.K

\* C2: in the same cases an ancilla that starts at 0 is back at 0 when the
\* circuit finishes.
C2_AncillaRestored ==
    AdderContractCase =>
        /\ ~aSim.bad
        /\ aArgs.ancilla_qubit \notin aSim.inph
        /\ aSim.bit[aArgs.ancilla_qubit] = 0

\* the ancilla after the first k gates of the run that has just ended
AncillaAfter(k) ==
    RunGates(SubSeq(aCirc, 1, k),
             IF aArgs.include_QFTs THEN AdderInput(aArgs, aX, aC)
             ELSE ApplyQFT(aArgs.target_register, AdderInput(aArgs, aX, aC))
            ).bit[aArgs.ancilla_qubit]

\* C2 witness: a run in which the ancilla was set to 1 on the way and is 0
\* at the end
C2_Witness ==
    /\ AdderContractCase /\ aC = 1
    /\ \E k \in 1..Len(aCirc) : AncillaAfter(k) = 1
    /\ aSim.bit[aArgs.ancilla_qubit] = 0

\* an addend of the call, num_sum or K, needs more bits than the target
\* register has wires
AddendTooWide ==
    LET nqubits == Len(aArgs.target_register) IN
    \/ to_binary(aArgs.num_sum, nqubits).none
    \/ to_binary(aArgs.K, nqubits).none

\* C11: whenever an addend needs more bits than the target register has
\* wires the builder ends in an error, and at the moment the error is raised
\* not a single gate has been appended to the circuit under construction.
C11_FailFastNoGateAppended ==
    /\ (AddendTooWide /\ aPc # "build") => aPc = "error"
    /\ aPc = "error" => (AddendTooWide /\ aCirc = <<>>)

\* what does hold: a too wide addend always ends the build in an error (no
\* angle vector comes from a truncated addend), and a build that ended in
\* an error is never run
TooWideAlwaysRaises ==
    /\ (AddendTooWide /\ aPc # "build") => aPc = "error"
    /\ aPc = "error" => AddendTooWide

---------------------------------------------------------------------------
(* Properties of oracle_multiples (SpecOracle) *)

\* the run is right behind the inverse QFT that ends the fold-in
AfterFoldIn ==
    /\ oPc = "run"
    /\ oIdx > 1 /\ oIdx <= Len(oCirc)
    /\ oCirc[oIdx - 1].op = "IQFT"

\* the sign of the basis input has been flipped / is as it was
SignFlipped == oSim.g = Pi

SignKept == oSim.g = 0

\* the integer the input register holds
InputValue == RegValue(oSim, [j \in 1..oArgs.nqubits_input |-> j - 1])

\* the integer the remainders register holds
RemainderValue == RegValue(oSim, RemainderWires(oArgs))

\* every wire is in the amplitude basis and the state is a basis state
IsBasisState == ~oSim.bad /\ oSim.inph = {}

\* C5 as stated: for every K >= 2 and input width, with no sub-oracle, for
\* every input basis value x the fold-in leaves the remainder register
\* holding x mod K and the default marking flips the sign of x if and only
\* if x mod K = 0.  (Fails for K = 2: multi_control_z(1) has no pair and
\* appends no gate, so nothing is marked.)
C5_MarksExactlyMultiples ==
    (~oArgs.oracle /\ oArgs.k >= 2) =>
        /\ AfterFoldIn => (IsBasisState /\ RemainderValue = oX % oArgs.k)
        /\ oPc = "ran" =>
              /\ IsBasisState
              /\ SignFlipped \/ SignKept
              /\ SignFlipped <=> (oX % oArgs.k = 0)

\* the same statement for K >= 3 only (it holds there, for the circuits
\* that are built)
MarksExactlyMultiplesFromThree ==
    (~oArgs.oracle /\ oArgs.k >= 3) =>
        /\ AfterFoldIn => (IsBasisState /\ RemainderValue = oX % oArgs.k)
        /\ oPc = "ran" =>
              /\ IsBasisState
              /\ SignFlipped \/ SignKept
              /\ SignFlipped <=> (oX % oArgs.k = 0)

\* C6: for every K >= 2, input width and input basis value x, after the
\* fold-out the remainder register holds what it held before the fold-in
\* (zero), the ancilla is 0 and the input register is unchanged, whether or
\* not x was marked.
C6_FoldOutUndoesFoldIn ==
    (oPc = "ran" /\ oArgs.k >= 2) =>
        /\ IsBasisState
        /\ RemainderValue = 0
        /\ oSim.bit[AncillaWire(oArgs)] = 0
        /\ InputValue = oX

\* C6 witness: a marked input above K whose remainder register is back at 0
C6_Witness ==
    /\ oPc = "ran" /\ ~oArgs.oracle /\ oArgs.k >= 3
    /\ oX > oArgs.k /\ SignFlipped
    /\ RemainderValue = 0 /\ InputValue = oX

\* the case of the controlled extra oracle with a pattern as long as the
\* control list, after the run
ControlledWithPattern ==
    /\ oPc = "ran"
    /\ oArgs.oracle
    /\ oArgs.qubits_control # <<>>
    /\ ~PatternMissing(oArgs.state_control)
    /\ Len(oArgs.state_control.val) = Len(oArgs.qubits_control)

\* the extra oracle was applied (once) / was not applied
Activated == oSim.hits = 1

NotActivated == oSim.hits = 0

\* the control wires hold after the run what they held before
ControlsRestored ==
    \A j \in 1..Len(oArgs.qubits_control) :
        oSim.bit[oArgs.qubits_control[j]] = BitOfValue(oX, oArgs.qubits_control[j])

\* C9 as stated: the sub-oracle is applied if and only if every control
\* wire control_wires[i] holds the bit control_pattern[i], and the control
\* wires are returned to their original values.  (Fails: the code reads the
\* pattern in reverse.)
C9_PatternSameIndex ==
    ControlledWithPattern =>
        /\ IsBasisState
        /\ Activated \/ NotActivated
        /\ Activated <=>
              \A j \in 1..Len(oArgs.qubits_control) :
                  BitOfValue(oX, oArgs.qubits_control[j]) = oArgs.state_control.val[j]
        /\ ControlsRestored

\* C9 amended: the sub-oracle is applied if and only if every control wire
\* control_wires[i] holds the bit control_pattern[len-1-i] (the pattern is
\* read in reverse), for every pattern, and the control wires are returned
\* to their original values.
C9_PatternReversedIndex ==
    ControlledWithPattern =>
        /\ IsBasisState
        /\ Activated \/ NotActivated
        /\ Activated <=>
              \A j \in 1..Len(oArgs.qubits_control) :
                  BitOfValue(oX, oArgs.qubits_control[j]) =
                      oArgs.state_control.val[Len(oArgs.qubits_control) + 1 - j]
        /\ ControlsRestored

\* C9 witness: the pattern [0, 1] on the controls [0, 1] is activated by
\* wire 0 holding 1 and wire 1 holding 0
C9_Witness ==
    /\ ControlledWithPattern
    /\ oArgs.qubits_control = <<0, 1>>
    /\ oArgs.state_control.val = <<0, 1>>
    /\ Activated
    /\ BitOfValue(oX, 0) = 1 /\ BitOfValue(oX, 1) = 0

\* the case of the controlled extra oracle with state_control=None, after
\* the run
ControlledNoPattern ==
    /\ oPc = "ran"
    /\ oArgs.oracle
    /\ oArgs.qubits_control # <<>>
    /\ oArgs.state_control.none

\* the wires the built circuit negates with an x instruction of its own
NegatedWires == {oCirc[j].q[1] : j \in {i \in 1..Len(oCirc) : oCirc[i].op = "x"}}

ControlWireSet == {oArgs.qubits_control[j] : j \in 1..Len(oArgs.qubits_control)}

\* C10 as stated: with no control pattern none of the control wires is
\* negated and the sub-oracle is activated exactly when all control wires
\* are 1.  (Fails: the code negates every control wire.)
C10_DefaultAllOnes ==
    ControlledNoPattern =>
        /\ NegatedWires \cap ControlWireSet = {}
        /\ Activated <=> \A w \in ControlWireSet : BitOfValue(oX, w) = 1

\* C10 amended: with no control pattern every control wire is negated
\* before and after the controlled application, so the sub-oracle is
\* activated exactly when all control wires are 0 (all-zeros activation).
C10_DefaultAllZeros ==
    ControlledNoPattern =>
        /\ IsBasisState
        /\ ControlWireSet \subseteq NegatedWires
        /\ Activated \/ NotActivated
        /\ Activated <=> \A w \in ControlWireSet : BitOfValue(oX, w) = 0
        /\ ControlsRestored

\* C10 witness: two control wires, no pattern, activated by both holding 0
C10_Witness ==
    /\ ControlledNoPattern
    /\ Len(oArgs.qubits_control) = 2
    /\ Activated
    /\ \A w \in ControlWireSet : BitOfValue(oX, w) = 0

\* what the model shows for k = 1: registers are created and gates appended,
\* and the build ends in the fold-in loop, when the adder of the remainder 2
\* is built for a remainders register of one wire
ModulusOneEndsInTypeError ==
    (oArgs.k = 1 /\ oPc \notin {"superpose", "foldin"}) =>
        /\ oPc = "error"
        /\ oErr = "TypeError"
        /\ oCirc # <<>>

\* a control-wire list and a control-pattern list of different lengths were
\* passed
ControlPatternLengthsDiffer ==
    /\ oArgs.oracle
    /\ oArgs.qubits_control # <<>>
    /\ ~oArgs.state_control.none
    /\ Len(oArgs.qubits_control) # Len(oArgs.state_control.val)

\* C13: whenever the control-wire list and the control-pattern list have
\* different lengths, an empty pattern list against a non-empty control
\* list included, the build ends in an error: it never goes past the marking
\* step and no circuit is returned.
C13_LengthMismatchEndsInError ==
    ControlPatternLengthsDiffer => oPc \notin {"foldout", "built", "run", "ran"}

\* what does hold: a non-empty pattern of another length ends the build in
\* an error (the assert, unless an earlier statement has raised)
NonEmptyMismatchEndsInError ==
    (ControlPatternLengthsDiffer /\ oArgs.state_control.val # <<>>) =>
        /\ oPc \notin {"foldout", "built", "run", "ran"}
        /\ oPc = "error" => oErr \in {"AssertionError", "TypeError"}

\* the instructions of the circuit that apply an adder, in append order
IsAdderInstruction(gt) ==
    /\ gt.op = "circ"
    /\ \E i \in 0..(oArgs.nqubits_input - 1) : gt.q = AdderQargs(oArgs, i)

AdderInstructions == SelectSeq(oCirc, IsAdderInstruction)

\* the addend the j-th adder instruction refers to: the fold-in loop refers
\* to list_remainders in order, the fold-out loop to k - remainder in order
ReferredAddend(j) ==
    LET nIn == IF oPc = "foldin" THEN Len(AdderInstructions) ELSE Len(oRem) IN
    IF j <= nIn THEN oRem[j] ELSE oArgs.k - oRem[j - nIn]

\* the number of calls of c_phase_add_mod_K for num_sum
BuildsOf(num_sum) ==
    Cardinality({j \in 1..Len(oBuilds) : oBuilds[j] = num_sum})

\* C14: within one call of oracle_multiples c_phase_add_mod_K is called at
\* most once for each addend, over the fold-in and the fold-out loop
\* together; every reference to an addend, a fold-out inverse k - r that
\* equals a fold-in remainder included, appends the circuit cached for it;
\* and the cache is empty when the fold-in loop starts.
C14_AdderBuiltAtMostOnce ==
    /\ \A j \in 1..Len(oBuilds) : BuildsOf(oBuilds[j]) = 1
    /\ oPc \in {"foldin", "mark", "foldout", "built"} =>
          /\ DOMAIN oSums = {oBuilds[j] : j \in 1..Len(oBuilds)}
          /\ \A j \in 1..Len(AdderInstructions) :
                /\ ReferredAddend(j) \in DOMAIN oSums
                /\ AdderInstructions[j].sub = oSums[ReferredAddend(j)]
                /\ AdderInstructions[j].sub = OracleAdder(oArgs, ReferredAddend(j)).gates
    /\ (oPc = "foldin" /\ oI = 0) => (oSums = <<>> /\ oBuilds = <<>>)

\* C14 witness: a finished build in which a fold-out inverse k - r equals a
\* fold-in remainder, the adder of that addend was built once and is
\* referred to by an instruction of each loop
C14_Witness ==
    /\ oPc = "built"
    /\ oArgs.k >= 3
    /\ \E i, j \in 1..Len(oRem) :
          /\ oRem[i] = oArgs.k - oRem[j]
          /\ BuildsOf(oRem[i]) = 1
          /\ AdderInstructions[i].sub = AdderInstructions[Len(oRem) + j].sub
    /\ Len(AdderInstructions) > Len(oBuilds)

---------------------------------------------------------------------------
(* Properties of get_remainders_power_2 (SpecRem) *)

\* the elements 0..power of the returned list are the remainders of the
\* powers of two
RemaindersArePowers ==
    \A i \in 0..rPower : i + 1 <= Len(rList) /\ rList[i + 1] = Pow2(i) % rK

\* C3 as stated: for all K >= 2 and p >= 0 every element i <= p of the
\* returned list equals 2^i mod K.  (Fails for K = 2: the seed [1, 2] is not
\* reduced, so element 1 is 2 and not 0.)
C3_RemaindersArePowers_K2 == rPc = "done" => RemaindersArePowers

\* C3 amended: for all K >= 3 (the docstring's "number greater than 2") and
\* p >= 0 every element i <= p of the returned list equals 2^i mod K, on the
\* doubling path and on the cycle-tiling path alike.
C3_RemaindersArePowers == (rPc = "done" /\ rK >= 3) => RemaindersArePowers

\* C3 witness: a list produced by tiling a detected cycle at least twice
C3_Witness ==
    /\ rPc = "done" /\ rVia = "cycle" /\ rK >= 3
    /\ rPower >= 2 * rP
    /\ Len(rList) = rPower + 1

\* C4 as stated: for all K >= 2 and p >= 0 the returned list has exactly
\* p + 1 elements.  (Fails for p = 0: the seed [1, 2] is returned whole.)
C4_LengthIsPowerPlusOne == rPc = "done" => Len(rList) = rPower + 1

---------------------------------------------------------------------------
(* Properties of get_angles_phase_addition (SpecAngles) *)

\* bit b of m
BitOf(m, b) == (m \div Pow2(b)) % 2

\* pi times the sum over the set bits b <= i of m of 2^(b-i), in angle units
ClosedFormAngle(m, i) ==
    SumSeq([k \in 1..(i + 1) |-> BitOf(m, k - 1) * Pow2(AngleRes + (k - 1) - i)])

\* C7: for every width w >= 1 and addend 0 <= m < 2^w the function returns
\* exactly w angles, the angle of wire i is pi times the sum over the set
\* bits b <= i of m of 2^(b-i), and angle[i] * 2^i / pi = m mod 2^(i+1).
C7_AngleClosedForm ==
    (gPc = "done" /\ gNumber < Pow2(gNq)) =>
        /\ Len(gAngles) = gNq
        /\ \A i \in 0..(gNq - 1) :
              /\ gAngles[i + 1] = ClosedFormAngle(gNumber, i)
              /\ gAngles[i + 1] * Pow2(i) = (gNumber % Pow2(i + 1)) * Pi

\* C7 witness: an addend with set bits below and above a middle wire
C7_Witness ==
    /\ gPc = "done" /\ gNq >= 3 /\ gNumber = 5
    /\ Len(gAngles) = gNq

\* the angle vector of the complement 2^w - m at the same width
ComplementAngles == get_angles_phase_addition(Pow2(gNq) - gNumber, gNq)

\* C8 as stated: for every 0 <= m < 2^w the angle vector of 2^w - m is the
\* exact negation, wire by wire, of the angle vector of m.  (Fails: the two
\* differ by 2 pi on every wire whose angle is not 0, and for m = 0 the
\* complement 2^w does not fit the width.)
C8_ExactNegation ==
    (gPc = "done" /\ gNumber < Pow2(gNq)) =>
        /\ ~ComplementAngles.err
        /\ \A k \in 1..gNq : ComplementAngles.val[k] = 0 - gAngles[k]

\* C8 amended: for every 0 < m < 2^w the angle vector of 2^w - m equals the
\* negation of the angle vector of m modulo 2 pi, wire by wire.
C8_NegationModTwoPi ==
    (gPc = "done" /\ 0 < gNumber /\ gNumber < Pow2(gNq)) =>
        /\ ~ComplementAngles.err
        /\ \A k \in 1..gNq :
              ModTwoPi(ComplementAngles.val[k]) = ModTwoPi(0 - gAngles[k])

\* C8 witness: an addend whose complement has a different bit pattern
C8_Witness ==
    /\ gPc = "done" /\ gNq >= 3 /\ gNumber = 3
    /\ ~ComplementAngles.err
    /\ ComplementAngles.val # gAngles

---------------------------------------------------------------------------
(* Properties of the first phase of oracle_multiples (SpecInit) *)

\* C12: for every K < 2 oracle_multiples ends in an error raised at the
\* modulus precondition: no register is ever allocated, no gate is ever
\* appended, and the build never goes on to the fold-in loop.
C12_InvalidModulusAtPrecondition ==
    iArgs.k < 2 =>
        /\ iRegs = <<>>
        /\ iCirc = <<>>
        /\ iPc # "foldin"

\* the sizes of the registers created, in creation order
RegisterSizes == [j \in 1..Len(iRegs) |-> iRegs[j].size]

\* the circuit carries a measurement buffer
BufferAttached == \E j \in 1..Len(iQregs) : iQregs[j] = "classic_multiples"

\* C15: for every K >= 2, every init_H and every classic_register (unset,
\* true, false) the first phase ends without error at the fold-in loop, with
\* an input register of the requested width, a remainder register of
\* ceil(log2 K) + 1 wires and one ancilla wire, and with a measurement buffer
\* attached exactly when the flag, after defaulting, is true.
C15_InitCompletes ==
    iArgs.k >= 2 =>
        /\ iPc # "error"
        /\ iPc = "foldin" =>
              /\ SubSeq(RegisterSizes, 1, 3) =
                    <<iArgs.nqubits_input, CeilLog2(iArgs.k) + 1, 1>>
              /\ BufferAttached <=> iFlag

\* what does hold: the same, for the function of code/multiples_functions.py
InitCompletesInCode ==
    (iArgs.k >= 2 /\ iArgs.variant = "code") =>
        /\ iPc # "error"
        /\ iPc = "foldin" =>
              /\ SubSeq(RegisterSizes, 1, 3) =
                    <<iArgs.nqubits_input, CeilLog2(iArgs.k) + 1, 1>>
              /\ BufferAttached <=> iFlag
              /\ iFlag = IF iArgs.classic_register.none THEN iArgs.init_H
                         ELSE iArgs.classic_register.val

---------------------------------------------------------------------------
(* Properties of mc_gate and _c1c2 (SpecDecomposer) *)

\* the pairs processed so far by the pass-th call, in processing order
ProcessedKeys(pass) ==
    LET IsOfPass(e) == e.pass = pass
        es == SelectSeq(dOut, IsOfPass) IN
    [j \in 1..Len(es) |-> PairKey(es[j].pair)]

Ascending(keys) == \A i, j \in 1..Len(keys) : i < j => keys[i] <= keys[j]

Descending(keys) == \A i, j \in 1..Len(keys) : i < j => keys[i] >= keys[j]

\* the calls made so far
PassesSoFar == 1..dPass

\* C16 as stated: in every call of _c1c2 the pairs are processed in order of
\* control index + target index, ascending in the forward pass (step = 1)
\* and descending in the reverse pass (step = -1).
C16_ForwardAscendingReverseDescending ==
    \A pass \in PassesSoFar :
        IF PassStep(pass) = 1 THEN Ascending(ProcessedKeys(pass))
        ELSE Descending(ProcessedKeys(pass))

\* C16: in every call of _c1c2 the pairs are processed in order of control
\* index + target index, descending in the forward pass (step = 1) and
\* ascending in the reverse pass (step = -1); every pair of qubit_pairs is
\* processed, in the order of the sorted list.
C16_ForwardDescendingReverseAscending ==
    /\ \A pass \in PassesSoFar :
          IF PassStep(pass) = 1 THEN Descending(ProcessedKeys(pass))
          ELSE Ascending(ProcessedKeys(pass))
    /\ dPc = "_c1c2" =>
          ProcessedKeys(dPass) = [j \in 1..(dIdx - 1) |-> PairKey(dPairs[j])]

\* C16 witness: all four calls are over and each of the first three has
\* processed pairs of different keys
C16_Witness ==
    /\ dPc = "done"
    /\ \A pass \in 1..3 :
          \E i, j \in 1..Len(ProcessedKeys(pass)) :
              ProcessedKeys(pass)[i] # ProcessedKeys(pass)[j]

\* positions of dOut that hold the gate made by _gate_u
FractionalPositions == {j \in 1..Len(dOut) : dOut[j].gate.op = "cu"}

\* exponent = target - control, one less when control = 0, written out
ExponentOf(pair) ==
    IF pair.control = 0 THEN pair.target - 1 ELSE pair.target - pair.control

\* an angle of + or - pi / 2^exponent
IsPiOverPow2(ang, exponent) ==
    \/ ang * Pow2(exponent) = Pi
    \/ ang * Pow2(exponent) = 0 - Pi

\* C17 as stated: for every wire count n >= 2, over the four passes of
\* mc_gate exactly one pair, the one of the deepest control and the target
\* in the first half, receives the fractional-power gate of U; every other
\* pair receives a controlled rotation of angle +-pi / 2^exponent.
C17_SingleFractionalGate ==
    (dPc = "done" /\ dN >= 2) =>
        /\ Cardinality(FractionalPositions) = 1
        /\ \A j \in FractionalPositions :
              /\ dOut[j].pass <= 2
              /\ dOut[j].pair = [control |-> dN - 2, target |-> dN - 1]
        /\ \A j \in 1..Len(dOut) :
              j \notin FractionalPositions =>
                  /\ dOut[j].gate.op = "crx"
                  /\ IsPiOverPow2(dOut[j].gate.ang, ExponentOf(dOut[j].pair))

\* C17: for every wire count n >= 2, over the four passes of mc_gate the
\* pairs that receive the fractional-power gate U^(+-1/2^exponent) are
\* exactly the pairs whose target is the last wire in the two passes of the
\* first half, 2n - 3 of them; every other pair receives a controlled
\* rotation of angle +-pi / 2^exponent; exponent = target - control, one
\* less when control = 0.
C17_FractionalOnEveryTargetPair ==
    /\ \A j \in 1..Len(dOut) :
          /\ j \in FractionalPositions <=>
                (dOut[j].pass <= 2 /\ dOut[j].pair.target = dN - 1)
          /\ j \notin FractionalPositions => dOut[j].gate.op = "crx"
          /\ IsPiOverPow2(dOut[j].gate.ang, ExponentOf(dOut[j].pair))
    /\ (dPc = "done" /\ dN >= 2) =>
          Cardinality(FractionalPositions) = 2 * dN - 3

\* C17 witness: a finished decomposition on four wires or more, with the
\* fractional-power gate on several pairs and rotations on others
C17_Witness ==
    /\ dPc = "done"
    /\ dN >= 4
    /\ Cardinality(FractionalPositions) > 1
    /\ \E j \in 1..Len(dOut) : dOut[j].gate.op = "crx"

---------------------------------------------------------------------------
(* Specifications *)

SpecAngles == AngInit /\ [][AngNext]_vars

SpecAdder == AddInit /\ [][AddNext]_vars

SpecOracle == OInit /\ [][ONext]_vars

SpecRem == RemInit /\ [][RemNext]_vars

SpecInit == InitInit /\ [][InitNext]_vars

SpecDecomposer == DecInit /\ [][DecNext]_vars

===========================================================================
